---- MODULE Spec2Model ----
(***************************************************************************)
(* Model of the settings update planner (FormData::build_update) and the   *)
(* settings reader (SettingsValues::array_values / format) of              *)
(* src/pages/config/mod.rs.                                                *)
(*                                                                         *)
(* Strings are sequences of byte codes, so that starts_with, the           *)
(* zero-padded decimal formatting of indices and the byte-wise ordering    *)
(* used by sort_by(cmp) are computed the way the code computes them.       *)
(***************************************************************************)
EXTENDS Integers, Sequences, FiniteSets, TLC

VARIABLES form, settings, settings0, plan, applied, pc, scanned, display

vars == <<form, settings, settings0, plan, applied, pc, scanned, display>>

-----------------------------------------------------------------------------
(* Bounds of the model *)

MaxArrayLen == 2
MaxIfThens == 1
MaxLongArrayLen == 11
MaxLongIfThens == 10

-----------------------------------------------------------------------------
(* Strings *)

Dot == <<46>>
EmptyStr == <<>>
StrX == <<120>>
StrY == <<121>>
StrOld == <<122>>
StrCond == <<99>>
StrCond2 == <<100>>
StrThen == <<114>>
StrThen2 == <<115>>
StrIf == <<105, 102>>
StrThenKw == <<116, 104, 101, 110>>
StrElse == <<101, 108, 115, 101>>
IdKey == <<95, 105, 100>>
ValueKey == <<95, 118, 97, 108, 117, 101>>
FieldA == <<97>>
FieldAB == <<97, 98>>
FieldA1 == <<97, 46, 49>>
SchemaPrefix == <<112>>
EntryId == <<105>>

RECURSIVE to_string(_)
to_string(n) ==
    IF n < 10 THEN <<48 + n>> ELSE to_string(n \div 10) \o <<48 + (n % 10)>>

RECURSIVE Zeros(_)
Zeros(n) == IF n <= 0 THEN <<>> ELSE <<48>> \o Zeros(n - 1)

PadZero(s, width) == Zeros(width - Len(s)) \o s

StartsWith(s, p) == Len(p) <= Len(s) /\ SubSeq(s, 1, Len(p)) = p

StrLess(a, b) ==
    \E i \in 1..(Len(a) + 1) :
        /\ i <= Len(b)
        /\ \A j \in 1..(i - 1) : a[j] = b[j]
        /\ (i = Len(a) + 1 \/ a[i] < b[i])

JoinDot(a, b) == a \o Dot \o b

None == [some |-> FALSE]
Some(v) == [some |-> TRUE, v |-> v]

-----------------------------------------------------------------------------
(* Value model and update operations *)

Value(s) == [tag |-> "Value", value |-> s]
Array(vs) == [tag |-> "Array", values |-> vs]
Expression(its, e) == [tag |-> "Expression", if_thens |-> its, else_ |-> e]
IfThen(c, r) == [if_ |-> c, then_ |-> r]

Delete(keys) == [type |-> "Delete", keys |-> keys]
Clear(prefix) == [type |-> "Clear", prefix |-> prefix]
Insert(prefix, values, assert_empty) ==
    [type |-> "Insert", prefix |-> prefix, values |-> values,
     assert_empty |-> assert_empty]

is_multivalue(field) ==
    \/ field.typ_.tag \in {"Array", "Expression"}
    \/ (field.typ_.tag = "Select" /\ field.typ_.multi)

expr_is_empty(expr) == expr.if_thens = <<>> /\ expr.else_ = <<>>

value_is_empty(self, id) ==
    IF id \notin DOMAIN self.values THEN TRUE
    ELSE LET v == self.values[id] IN
         CASE v.tag = "Value" -> v.value = <<>>
           [] v.tag = "Array" -> v.values = <<>>
           [] v.tag = "Expression" -> expr_is_empty(v)

value_as_str(self, id) ==
    IF id \in DOMAIN self.values /\ self.values[id].tag = "Value"
    THEN Some(self.values[id].value)
    ELSE None

-----------------------------------------------------------------------------
(* FormData::build_update *)

IsControl(key) == Len(key) >= 1 /\ key[1] = 95

ArrayPadLenUnpadded(total_values) == 1

ArrayPadLen(total_values) == Len(to_string(total_values - 1))

ExprPadLenOfLast(total_values) == Len(to_string(total_values - 1))

ExprPadLen(total_values) == Len(to_string(total_values))

FlattenArray(key, values) ==
    LET total_values == Len(values)
        pad_len == ArrayPadLen(total_values)
    IN  IF total_values > 1
        THEN [n \in 1..total_values |->
                <<JoinDot(key, PadZero(to_string(n - 1), pad_len)), values[n]>>]
        ELSE << <<key, values[1]>> >>

FlattenExpression(key, expr) ==
    LET total_values == Len(expr.if_thens)
        pad_len == ExprPadLen(total_values)
        Idx(i) == JoinDot(key, PadZero(to_string(i), pad_len))
    IN  IF expr.if_thens # <<>>
        THEN [n \in 1..(2 * total_values) |->
                IF n % 2 = 1
                THEN <<JoinDot(Idx((n - 1) \div 2), StrIf),
                       expr.if_thens[(n + 1) \div 2].if_>>
                ELSE <<JoinDot(Idx((n - 1) \div 2), StrThenKw),
                       expr.if_thens[n \div 2].then_>>]
             \o << <<JoinDot(Idx(total_values), StrElse), expr.else_>> >>
        ELSE << <<key, expr.else_>> >>

FlattenValue(key, value) ==
    CASE value.tag = "Value" /\ value.value # <<>> ->
            << <<key, value.value>> >>
      [] value.tag = "Array" /\ value.values # <<>> ->
            FlattenArray(key, value.values)
      [] value.tag = "Expression" /\ ~expr_is_empty(value) ->
            FlattenExpression(key, value)
      [] OTHER -> <<>>

RECURSIVE KeyValues(_, _)
KeyValues(self, value_order) ==
    IF value_order = <<>> THEN <<>>
    ELSE LET key == Head(value_order)
             rest == KeyValues(self, Tail(value_order))
         IN  IF IsControl(key) THEN rest
             ELSE FlattenValue(key, self.values[key]) \o rest

ListClearsNone(self, field_order) == <<>>

RECURSIVE ListClears(_, _)
ListClears(self, field_order) ==
    IF field_order = <<>> THEN <<>>
    ELSE LET field == self.schema.fields[Head(field_order)]
             rest == ListClears(self, Tail(field_order))
         IN  IF is_multivalue(field)
             THEN <<Clear(field.id \o Dot)>> \o rest
             ELSE rest

RECURSIVE ListDeleteKeysEmptyOnly(_, _)
ListDeleteKeysEmptyOnly(self, field_order) ==
    IF field_order = <<>> THEN <<>>
    ELSE LET field == self.schema.fields[Head(field_order)]
             rest == ListDeleteKeysEmptyOnly(self, Tail(field_order))
         IN  IF is_multivalue(field) THEN rest
             ELSE IF value_is_empty(self, field.id) THEN <<field.id>> \o rest
             ELSE rest

RECURSIVE ListDeleteKeys(_, _)
ListDeleteKeys(self, field_order) ==
    IF field_order = <<>> THEN <<>>
    ELSE LET field == self.schema.fields[Head(field_order)]
             rest == ListDeleteKeys(self, Tail(field_order))
         IN  IF is_multivalue(field) THEN <<field.id>> \o rest
             ELSE IF value_is_empty(self, field.id) THEN <<field.id>> \o rest
             ELSE rest

RecordArmClearNoDot(self) ==
    LET id == value_as_str(self, IdKey)
        prefix == self.schema.typ.prefix
    IN  IF ~id.some THEN [panic |-> TRUE]
        ELSE [panic |-> FALSE, return |-> FALSE,
              updates |-> IF self.is_update
                          THEN <<Clear(JoinDot(prefix, id.v))>>
                          ELSE <<>>,
              insert_prefix |-> Some(JoinDot(prefix, id.v)),
              assert_empty |-> ~self.is_update]

RecordArmNoAssert(self) ==
    LET id == value_as_str(self, IdKey)
        prefix == self.schema.typ.prefix
    IN  IF ~id.some THEN [panic |-> TRUE]
        ELSE [panic |-> FALSE, return |-> FALSE,
              updates |-> IF self.is_update
                          THEN <<Clear(JoinDot(prefix, id.v) \o Dot)>>
                          ELSE <<>>,
              insert_prefix |-> Some(JoinDot(prefix, id.v)),
              assert_empty |-> FALSE]

RecordArm(self) ==
    LET id == value_as_str(self, IdKey)
        prefix == self.schema.typ.prefix
    IN  IF ~id.some THEN [panic |-> TRUE]
        ELSE [panic |-> FALSE, return |-> FALSE,
              updates |-> IF self.is_update
                          THEN <<Clear(JoinDot(prefix, id.v) \o Dot)>>
                          ELSE <<>>,
              insert_prefix |-> Some(JoinDot(prefix, id.v)),
              assert_empty |-> ~self.is_update]

EntryArmFallThrough(self) ==
    LET id == value_as_str(self, IdKey)
        value == value_as_str(self, ValueKey)
        prefix == self.schema.typ.prefix
    IN  IF ~id.some THEN [panic |-> TRUE]
        ELSE [panic |-> FALSE, return |-> FALSE,
              updates |-> <<Insert(None,
                                   << <<JoinDot(prefix, id.v),
                                        IF value.some THEN value.v ELSE <<>>>> >>,
                                   ~self.is_update)>>,
              insert_prefix |-> None,
              assert_empty |-> FALSE]

EntryArm(self) ==
    LET id == value_as_str(self, IdKey)
        value == value_as_str(self, ValueKey)
        prefix == self.schema.typ.prefix
    IN  IF ~id.some THEN [panic |-> TRUE]
        ELSE [panic |-> FALSE, return |-> TRUE,
              updates |-> <<Insert(None,
                                   << <<JoinDot(prefix, id.v),
                                        IF value.some THEN value.v ELSE <<>>>> >>,
                                   ~self.is_update)>>,
              insert_prefix |-> None,
              assert_empty |-> FALSE]

ListArm(self, field_order) ==
    LET delete_keys == ListDeleteKeys(self, field_order)
    IN  [panic |-> FALSE, return |-> FALSE,
         updates |-> IF self.is_update
                     THEN ListClears(self, field_order)
                          \o (IF delete_keys # <<>>
                              THEN <<Delete(delete_keys)>> ELSE <<>>)
                     ELSE <<>>,
         insert_prefix |-> None,
         assert_empty |-> FALSE]

ShapeArm(self, field_order) ==
    CASE self.schema.typ.tag = "Record" -> RecordArm(self)
      [] self.schema.typ.tag = "Entry" -> EntryArm(self)
      [] self.schema.typ.tag = "List" -> ListArm(self, field_order)

PushInsertFirst(updates, insert_prefix, key_values, assert_empty) ==
    IF key_values # <<>>
    THEN <<Insert(insert_prefix, key_values, assert_empty)>> \o updates
    ELSE updates

PushInsert(updates, insert_prefix, key_values, assert_empty) ==
    IF key_values # <<>>
    THEN updates \o <<Insert(insert_prefix, key_values, assert_empty)>>
    ELSE updates

build_update(self, field_order, value_order) ==
    LET arm == ShapeArm(self, field_order)
    IN  IF arm.panic THEN [panic |-> TRUE]
        ELSE IF arm.return THEN [panic |-> FALSE, updates |-> arm.updates]
        ELSE [panic |-> FALSE,
              updates |-> PushInsert(arm.updates, arm.insert_prefix,
                                     KeyValues(self, value_order),
                                     arm.assert_empty)]

-----------------------------------------------------------------------------
(* SettingsValues: array_values and format *)

SortByKey(store, keys) ==
    [n \in 1..Cardinality(keys) |->
        LET k == CHOOSE x \in keys :
                    Cardinality({o \in keys : StrLess(o, x)}) = n - 1
        IN  <<k, store[k]>>]

array_values_prefix_only(store, key) ==
    LET prefix == key \o Dot
    IN  SortByKey(store, {k \in DOMAIN store : StartsWith(k, prefix)})

array_values(store, key) ==
    LET full_prefix == key
        prefix == key \o Dot
    IN  SortByKey(store,
                  {k \in DOMAIN store : StartsWith(k, prefix) \/ k = full_prefix})

RECURSIVE find_map(_, _)
find_map(items, value) ==
    IF items = <<>> THEN None
    ELSE IF Head(items)[1] = value THEN Some(Head(items)[2])
    ELSE find_map(Tail(items), value)

get_or_default(store, id) == IF id \in DOMAIN store THEN store[id] ELSE <<>>

format(store, field) ==
    CASE field.typ_.tag = "Select"
         /\ field.typ_.source.tag = "Static"
         /\ ~field.typ_.multi ->
            LET value == get_or_default(store, field.id)
                found == find_map(field.typ_.source.items, value)
            IN  IF found.some THEN found.v ELSE value
      [] field.typ_.tag = "Array" ->
            LET results == array_values(store, field.id)
            IN  IF results # <<>> THEN results[1][2] ELSE <<>>
      [] OTHER -> get_or_default(store, field.id)

-----------------------------------------------------------------------------
(* The store executor that consumes a plan: delete-by-exact-key-set,        *)
(* delete-by-prefix, insert-with-optional-must-not-exist-guard.             *)

Range(seq) == {seq[i] : i \in 1..Len(seq)}

FullKey(prefix, key) == IF prefix.some THEN JoinDot(prefix.v, key) ELSE key

WriteAll(store, prefix, values) ==
    LET Key(n) == FullKey(prefix, values[n][1])
        written == {Key(n) : n \in 1..Len(values)}
        Last(k) == CHOOSE n \in 1..Len(values) :
                      Key(n) = k /\ \A m \in (n + 1)..Len(values) : Key(m) # k
    IN  [k \in DOMAIN store \cup written |->
            IF k \in written THEN values[Last(k)][2] ELSE store[k]]

Rejects(store, op) ==
    /\ op.type = "Insert"
    /\ op.assert_empty
    /\ \E i \in 1..Len(op.values) :
            FullKey(op.prefix, op.values[i][1]) \in DOMAIN store

ApplyOp(store, op) ==
    CASE op.type = "Delete" ->
            [k \in DOMAIN store \ Range(op.keys) |-> store[k]]
      [] op.type = "Clear" ->
            [k \in {x \in DOMAIN store : ~StartsWith(x, op.prefix)} |-> store[k]]
      [] op.type = "Insert" ->
            WriteAll(store, op.prefix, op.values)

-----------------------------------------------------------------------------
(* Inputs *)

Perms(S) ==
    {s \in [1..Cardinality(S) -> S] : \A x \in S : \E i \in DOMAIN s : s[i] = x}

SeqsUpTo(S, n) == UNION {[1..k -> S] : k \in 0..n}

Funs(D, R) == UNION {[d -> R] : d \in SUBSET D}

TInput == [tag |-> "Input"]
TArray == [tag |-> "Array"]
TExpression == [tag |-> "Expression"]
TSelect(source, multi) == [tag |-> "Select", source |-> source, multi |-> multi]
Static(items) == [tag |-> "Static", items |-> items]
Dynamic == [tag |-> "Dynamic"]

Field(id, typ_) == [id |-> id, typ_ |-> typ_]

TRecord == [tag |-> "Record", prefix |-> SchemaPrefix]
TEntry == [tag |-> "Entry", prefix |-> SchemaPrefix]
TList == [tag |-> "List"]

FormData(typ, fields, values, is_update) ==
    [schema |-> [typ |-> typ, fields |-> fields],
     values |-> values, is_update |-> is_update]

IfThenPool == {IfThen(StrCond, StrThen), IfThen(StrCond2, StrThen2)}

FormValues(vals, its, max_array, max_if_thens) ==
    {Value(s) : s \in {<<>>} \cup vals}
    \cup {Array(a) : a \in SeqsUpTo(vals, max_array)}
    \cup {Expression(i, e) : i \in SeqsUpTo(its, max_if_thens),
                             e \in {<<>>, StrX}}

FieldTypes ==
    (FieldA :> {TArray, TInput}) @@ (FieldAB :> {TInput, TSelect(Dynamic, TRUE)})

StoreFieldTypes ==
    (FieldA :> {TArray, TInput}) @@ (FieldAB :> {TInput})
    @@ (FieldA1 :> {TInput})

SchemaFields(types) ==
    {f \in Funs(DOMAIN types,
                {Field(i, t) : i \in DOMAIN types,
                               t \in UNION {types[j] : j \in DOMAIN types}}) :
        /\ DOMAIN f # {}
        /\ Cardinality(DOMAIN f) <= 2
        /\ \A i \in DOMAIN f : f[i].id = i /\ f[i].typ_ \in types[i]}

ControlValues ==
    {c \in Funs({IdKey, ValueKey}, {Value(<<>>), Value(StrX), Value(EntryId)}) :
        /\ IdKey \in DOMAIN c => c[IdKey] = Value(EntryId)
        /\ ValueKey \in DOMAIN c => c[ValueKey] # Value(EntryId)}

OldSettings ==
    (JoinDot(JoinDot(SchemaPrefix, EntryId), FieldA) :> StrOld)
    @@ (JoinDot(SchemaPrefix, EntryId) :> StrOld)
    @@ (FieldA :> StrOld)

StartWith(f, store, state) ==
    /\ form = f
    /\ settings = store
    /\ settings0 = store
    /\ plan = <<>>
    /\ applied = 0
    /\ pc = state
    /\ scanned = None
    /\ display = None

Init ==
    \E typ \in {TRecord, TEntry, TList}, fields \in SchemaFields(FieldTypes),
       is_update \in BOOLEAN, ctl \in ControlValues,
       store \in {<<>>, OldSettings} :
      \E data \in Funs(DOMAIN fields,
                        FormValues({StrX}, {IfThen(StrCond, StrThen)},
                                   MaxArrayLen, MaxIfThens)) :
        StartWith(FormData(typ, fields, data @@ ctl, is_update), store, "edit")

-----------------------------------------------------------------------------
(* Operations *)

(* build_update iterates two maps, schema.fields and values, whose order   *)
(* is not fixed: every order is a possible run.  unwrap() on a missing _id *)
(* panics and no plan is returned.                                          *)
BuildUpdate ==
    /\ pc = "edit"
    /\ \E field_order \in Perms(DOMAIN form.schema.fields),
          value_order \in Perms(DOMAIN form.values) :
          LET result == build_update(form, field_order, value_order)
          IN  IF result.panic
              THEN pc' = "panic" /\ plan' = plan
              ELSE pc' = "built" /\ plan' = result.updates
    /\ UNCHANGED <<form, settings, settings0, applied, scanned, display>>

ApplyUpdate ==
    /\ pc = "built"
    /\ applied < Len(plan)
    /\ LET op == plan[applied + 1]
       IN  IF Rejects(settings, op)
           THEN pc' = "rejected" /\ UNCHANGED <<settings, applied>>
           ELSE /\ settings' = ApplyOp(settings, op)
                /\ applied' = applied + 1
                /\ pc' = pc
    /\ UNCHANGED <<form, settings0, plan, scanned, display>>

Applied == pc = "built" /\ applied = Len(plan)

ArrayValues ==
    /\ pc = "read" \/ Applied
    /\ \E id \in DOMAIN form.schema.fields :
          scanned' = Some([key |-> id, results |-> array_values(settings, id)])
    /\ UNCHANGED <<form, settings, settings0, plan, applied, pc, display>>

Format ==
    /\ pc = "read" \/ Applied
    /\ \E id \in DOMAIN form.schema.fields :
          display' = Some([field |-> id,
                           text |-> format(settings, form.schema.fields[id])])
    /\ UNCHANGED <<form, settings, settings0, plan, applied, pc, scanned>>

Next == BuildUpdate \/ ApplyUpdate

Spec == Init /\ [][Next]_vars

(* List-shape updates applied to every prior store over StoreKeys *)
StoreKeys ==
    {FieldA, JoinDot(FieldA, <<48>>), JoinDot(FieldA, <<49>>),
     JoinDot(FieldA, <<50>>), FieldAB}

InitStore ==
    \E fields \in SchemaFields(StoreFieldTypes), store \in Funs(StoreKeys, {StrOld}) :
      \E data \in Funs(DOMAIN fields,
                        FormValues({StrX}, {IfThen(StrCond, StrThen)},
                                   MaxArrayLen, MaxIfThens)) :
        StartWith(FormData(TList, fields, data, TRUE), store, "edit")

SpecStore == InitStore /\ [][Next]_vars

(* One Array field of up to MaxLongArrayLen elements, written and read back *)
HundredArrays ==
    {[n \in 1..len |-> IF n % 3 = 1 THEN StrX ELSE StrY] : len \in {100, 101}}

InitArray ==
    \E is_update \in BOOLEAN,
       values \in SeqsUpTo({StrX, StrY}, MaxLongArrayLen) \cup HundredArrays :
        StartWith(FormData(TList, FieldA :> Field(FieldA, TArray),
                           FieldA :> Array(values), is_update),
                  FieldAB :> StrOld, "edit")

NextArray == BuildUpdate \/ ApplyUpdate \/ ArrayValues

SpecArray == InitArray /\ [][NextArray]_vars

(* One Expression field of up to MaxLongIfThens condition pairs *)
InitExpr ==
    \E is_update \in BOOLEAN, if_thens \in SeqsUpTo(IfThenPool, MaxLongIfThens),
       else_ \in {<<>>, StrX} :
        StartWith(FormData(TList, FieldA :> Field(FieldA, TExpression),
                           FieldA :> Expression(if_thens, else_), is_update),
                  <<>>, "edit")

SpecExpr == InitExpr /\ [][BuildUpdate]_vars

(* The reader on every store over ReadKeys, for one field of each type *)
ReadKeys ==
    {FieldA, JoinDot(FieldA, <<48>>), JoinDot(FieldA, <<49>>), FieldAB,
     FieldA \o <<45>>}

LabelOne == <<79, 110, 101>>
LabelTwo == <<84, 119, 111>>

StaticItems ==
    {<<>>, << <<StrX, LabelOne>> >>, << <<StrX, LabelOne>>, <<StrY, LabelTwo>> >>,
     << <<StrY, LabelTwo>>, <<StrY, LabelOne>> >>, << <<EmptyStr, LabelOne>> >>}

ReadTypes ==
    {TInput, TArray, TExpression, TSelect(Dynamic, FALSE), TSelect(Dynamic, TRUE)}
    \cup {TSelect(Static(items), multi) : items \in StaticItems, multi \in BOOLEAN}

InitRead ==
    \E typ_ \in ReadTypes, store \in Funs(ReadKeys, {StrX, StrY}) :
        StartWith(FormData(TList, FieldA :> Field(FieldA, typ_), <<>>, FALSE),
                  store, "read")

NextRead == ArrayValues \/ Format

SpecRead == InitRead /\ [][NextRead]_vars

-----------------------------------------------------------------------------
(* Properties of the plans returned by build_update *)

Positions(type) == {i \in 1..Len(plan) : plan[i].type = type}

Built == pc = "built"

Shape == form.schema.typ.tag

DeclaredFields == {form.schema.fields[i] : i \in DOMAIN form.schema.fields}

KeyOfField(key, id) == key = id \/ StartsWith(key, id \o Dot)

Absent(id) ==
    \/ id \notin DOMAIN form.values
    \/ form.values[id] \in {Value(<<>>), Array(<<>>), Expression(<<>>, <<>>)}

(* C1: in every returned plan each Clear and each Delete comes before the   *)
(* Insert, there is at most one Insert and it is the last operation; once   *)
(* the plan has been applied in order every key the Insert wrote is still   *)
(* in the store.                                                            *)
C1_ClearDeleteBeforeInsert ==
    /\ Built =>
          /\ Cardinality(Positions("Insert")) <= 1
          /\ \A j \in Positions("Insert") :
                /\ j = Len(plan)
                /\ \A i \in Positions("Clear") \cup Positions("Delete") : i < j
    /\ Applied =>
          \A i \in Positions("Insert") : \A n \in 1..Len(plan[i].values) :
              FullKey(plan[i].prefix, plan[i].values[n][1]) \in DOMAIN settings

C1_Witness ==
    /\ Applied
    /\ Positions("Clear") # {}
    /\ Positions("Delete") # {}
    /\ Positions("Insert") # {}

(* C4: a Record plan built with is_update begins with the one Clear of      *)
(* "{prefix}.{id}.", holds no other Clear and no Delete, and an Insert that *)
(* follows carries the prefix "{prefix}.{id}".                              *)
C4_RecordUpdateClear ==
    (Built /\ Shape = "Record" /\ form.is_update) =>
        LET id == form.values[IdKey].value
            entity == form.schema.typ.prefix \o Dot \o id
        IN  /\ Len(plan) >= 1
            /\ plan[1] = [type |-> "Clear", prefix |-> entity \o Dot]
            /\ \A i \in 2..Len(plan) :
                  /\ plan[i].type = "Insert"
                  /\ plan[i].prefix = Some(entity)

C4_Witness ==
    /\ Built /\ Shape = "Record" /\ form.is_update
    /\ Len(plan) = 2
    /\ plan[2].type = "Insert"

(* C5: an Insert of a Record or Entry create has assert_empty = TRUE; every *)
(* Insert of an update, and every Insert of a List plan, has it FALSE.      *)
C5_AssertEmpty ==
    Built =>
        \A i \in Positions("Insert") :
            plan[i].assert_empty = (Shape \in {"Record", "Entry"} /\ ~form.is_update)

C5_Witness ==
    /\ Built /\ Shape = "Record" /\ ~form.is_update
    /\ Positions("Insert") # {}

(* C6: an Entry plan is the single operation Insert{prefix: None,           *)
(* assert_empty: !is_update, values: [("{prefix}.{id}", _value)]}, whatever *)
(* other fields were edited; a missing _value is written as "".             *)
C6_EntrySingleInsert ==
    (Built /\ Shape = "Entry") =>
        plan = << [type |-> "Insert",
                   prefix |-> None,
                   values |-> << << form.schema.typ.prefix \o Dot
                                     \o form.values[IdKey].value,
                                   IF ValueKey \in DOMAIN form.values
                                   THEN form.values[ValueKey].value
                                   ELSE <<>> >> >>,
                   assert_empty |-> ~form.is_update] >>

C6_Witness ==
    /\ Built /\ Shape = "Entry"
    /\ ValueKey \in DOMAIN form.values
    /\ form.values[ValueKey] = Value(StrX)
    /\ \E id \in DOMAIN form.schema.fields :
          id \in DOMAIN form.values /\ ~Absent(id)

PairIsFor(pair, id) ==
    IF Shape = "Entry"
    THEN id = ValueKey
    ELSE KeyOfField(pair[1], id)

(* C7: for every shape, an edited field whose value is absent contributes   *)
(* no key-value pair to any Insert of the plan (for an Entry the pair       *)
(* written from _value is the pair of that field).                          *)
C7_AbsentValueNotInserted ==
    Built =>
        \A id \in DOMAIN form.values :
            Absent(id) =>
                \A i \in Positions("Insert") : \A n \in 1..Len(plan[i].values) :
                    ~PairIsFor(plan[i].values[n], id)

DeletedKeys == UNION {Range(plan[j].keys) : j \in Positions("Delete")}

(* C9: a List plan built with is_update holds, for every multivalue field,  *)
(* a Clear of "field_id." and the field id among the Delete's keys; a       *)
(* non-multivalue field id is among them exactly when its value is absent;  *)
(* there is one Delete, left out when no field is marked.  Without          *)
(* is_update a List plan holds no Clear and no Delete.                      *)
C9_ListClearAndDelete ==
    (Built /\ Shape = "List") =>
        IF form.is_update
        THEN /\ \A f \in DeclaredFields :
                  IF is_multivalue(f)
                  THEN /\ \E i \in Positions("Clear") :
                             plan[i].prefix = f.id \o Dot
                       /\ f.id \in DeletedKeys
                  ELSE f.id \in DeletedKeys <=> Absent(f.id)
             /\ Cardinality(Positions("Delete")) <= 1
             /\ \A j \in Positions("Delete") : plan[j].keys # <<>>
             /\ Positions("Delete") = {} <=>
                    \A f \in DeclaredFields : ~is_multivalue(f) /\ ~Absent(f.id)
        ELSE Positions("Clear") = {} /\ Positions("Delete") = {}

C9_Witness ==
    /\ Built /\ Shape = "List" /\ form.is_update
    /\ \E f \in DeclaredFields : is_multivalue(f) /\ Absent(f.id)
    /\ \E f \in DeclaredFields : ~is_multivalue(f) /\ ~Absent(f.id)

-----------------------------------------------------------------------------
(* Properties of a plan applied to the store, and of the reader *)

NoDottedPrefix ==
    \A f \in DeclaredFields, g \in DeclaredFields :
        f # g => ~StartsWith(g.id, f.id \o Dot)

KeysOfField(store, id) == {k \in DOMAIN store : KeyOfField(k, id)}

InsertedKeysOfField(id) ==
    UNION {{plan[i].values[n][1] : n \in {m \in 1..Len(plan[i].values) :
                                            KeyOfField(plan[i].values[m][1], id)}} :
           i \in Positions("Insert")}

(* C2: after a List update whose field ids are not dotted prefixes of one   *)
(* another has been applied in order to any prior store, the keys of a      *)
(* multivalue field (the field id and everything under "field_id.") are     *)
(* exactly the keys the plan's Insert wrote for it, and the key of a        *)
(* non-multivalue field whose edited value is absent is not in the store.   *)
C2_ListUpdateReplaces ==
    (Applied /\ Shape = "List" /\ form.is_update /\ NoDottedPrefix) =>
        \A f \in DeclaredFields :
            IF is_multivalue(f)
            THEN KeysOfField(settings, f.id) = InsertedKeysOfField(f.id)
            ELSE Absent(f.id) => f.id \notin DOMAIN settings

C2_Witness ==
    /\ Applied /\ Shape = "List" /\ form.is_update /\ NoDottedPrefix
    /\ \E f \in DeclaredFields :
          /\ is_multivalue(f)
          /\ Cardinality(KeysOfField(settings0, f.id)) >= 3
          /\ f.id \notin DOMAIN settings0
          /\ f.id \in DOMAIN form.values
          /\ form.values[f.id].tag = "Array"
          /\ Len(form.values[f.id].values) = 1
          /\ KeysOfField(settings, f.id) = {f.id}
    /\ \E g \in DeclaredFields :
          ~is_multivalue(g) /\ Absent(g.id) /\ g.id \in DOMAIN settings0

Digits(n) == CHOOSE d \in 1..6 : (n = 0 /\ d = 1) \/ (10 ^ (d - 1) <= n /\ n < 10 ^ d)

IndexSegment(i, width) == [j \in 1..width |-> 48 + ((i \div (10 ^ (width - j))) % 10)]

(* C3: an Array of N >= 2 elements written by the plan into a store holding *)
(* no key of the field and read back with array_values(field_id) gives the  *)
(* N elements in their order, element n under the key "field_id.<n-1>"      *)
(* zero-padded to the digit count of N-1; for N = 1 it gives the one pair   *)
(* (field_id, element).                                                     *)
C3_ArrayRoundTrip ==
    (/\ Applied /\ scanned.some /\ scanned.v.key = FieldA
     /\ KeysOfField(settings0, FieldA) = {}
     /\ form.values[FieldA].values # <<>>) =>
        LET values == form.values[FieldA].values
            N == Len(values)
            results == scanned.v.results
        IN  /\ Len(results) = N
            /\ \A n \in 1..N : results[n][2] = values[n]
            /\ N = 1 => results[1][1] = FieldA
            /\ N >= 2 =>
                  \A n \in 1..N :
                      results[n][1] = FieldA \o Dot \o IndexSegment(n - 1, Digits(N - 1))

C3_Witness ==
    /\ Applied /\ scanned.some /\ scanned.v.key = FieldA
    /\ Len(form.values[FieldA].values) = MaxLongArrayLen
    /\ MaxLongArrayLen > 10
    /\ \E n \in 1..(MaxLongArrayLen - 1) :
          form.values[FieldA].values[n] # form.values[FieldA].values[n + 1]
    /\ Len(scanned.v.results) = MaxLongArrayLen

(* C8: an Expression with k >= 1 condition pairs is written as the pairs    *)
(* ("field.i.if", condition i), ("field.i.then", result i) for i = 0..k-1   *)
(* and then ("field.k.else", fallback), every index zero-padded to the      *)
(* digit count of k, so that the keys are in increasing byte order; with no *)
(* condition pair and a non-empty fallback it is the pair (field, fallback).*)
C8_ExpressionFlattening ==
    (Built /\ ~Absent(FieldA)) =>
        LET expr == form.values[FieldA]
            k == Len(expr.if_thens)
            width == Digits(k)
            Key(i, suffix) == FieldA \o Dot \o IndexSegment(i, width) \o Dot \o suffix
        IN  /\ Positions("Insert") = {Len(plan)}
            /\ LET pairs == plan[Len(plan)].values
               IN  IF k = 0
                   THEN pairs = << <<FieldA, expr.else_>> >>
                   ELSE /\ Len(pairs) = 2 * k + 1
                        /\ \A i \in 0..(k - 1) :
                              /\ pairs[2 * i + 1] = <<Key(i, StrIf), expr.if_thens[i + 1].if_>>
                              /\ pairs[2 * i + 2] = <<Key(i, StrThenKw), expr.if_thens[i + 1].then_>>
                        /\ pairs[2 * k + 1] = <<Key(k, StrElse), expr.else_>>
                        /\ \A m \in 1..(2 * k) : StrLess(pairs[m][1], pairs[m + 1][1])

C8_Witness ==
    /\ Built /\ ~Absent(FieldA)
    /\ Len(form.values[FieldA].if_thens) = MaxLongIfThens
    /\ MaxLongIfThens >= 10
    /\ Len(plan[Len(plan)].values) = 2 * MaxLongIfThens + 1

Stored(id) == IF id \in DOMAIN settings THEN settings[id] ELSE <<>>

(* C10: format always yields a string: for a single-select field with a     *)
(* static source the label of the first entry whose key is the stored value *)
(* ("" when the key is absent), or that value itself when no entry matches; *)
(* for an Array field the value of the smallest key among the field id and  *)
(* the keys under "field_id.", or "" when there is none; for any other type *)
(* the value at the field key, or "".                                       *)
C10_FormatTotal ==
    /\ pc = "read" => ENABLED Format
    /\ display.some =>
          LET f == form.schema.fields[display.v.field]
              text == display.v.text
              items == f.typ_.source.items
              hits == {n \in 1..Len(items) : items[n][1] = Stored(f.id)}
              keys == KeysOfField(settings, f.id)
          IN  CASE f.typ_.tag = "Select" /\ f.typ_.source.tag = "Static"
                   /\ ~f.typ_.multi ->
                      IF hits = {}
                      THEN text = Stored(f.id)
                      ELSE \E n \in hits : (\A m \in hits : n <= m) /\ text = items[n][2]
                [] f.typ_.tag = "Array" ->
                      IF keys = {}
                      THEN text = <<>>
                      ELSE \E k \in keys :
                              /\ \A o \in keys : o = k \/ StrLess(k, o)
                              /\ text = settings[k]
                [] OTHER -> text = Stored(f.id)

C10_Witness ==
    /\ display.some
    /\ form.schema.fields[display.v.field].typ_.tag = "Array"
    /\ FieldA \in DOMAIN settings
    /\ (FieldA \o <<45>>) \in DOMAIN settings
    /\ JoinDot(FieldA, <<48>>) \in DOMAIN settings
    /\ settings[FieldA] # settings[JoinDot(FieldA, <<48>>)]
    /\ display.v.text = settings[FieldA]

====
